---------------------------- MODULE Spec2Model ----------------------------
(***************************************************************************)
(* A model of DEAR_ko/model.py: the bidirectional (en <-> ko) video-guided *)
(* transformer.  Three specifications share one set of variables:          *)
(*                                                                         *)
(*   Spec      make_model followed by one call of EncoderDecoder.forward.  *)
(*             Tensors are nodes of a computation graph (the tape): every  *)
(*             tensor operation of the source appends one node holding the *)
(*             operation, the module that owns it, the nodes it reads and  *)
(*             the shape it produces.                                      *)
(*   SpecAttn  the attention primitive on concrete scores and masks.       *)
(*   SpecDec   the decoder stack run on two target inputs at once, one     *)
(*             value per time position.                                    *)
(***************************************************************************)
EXTENDS Integers, Sequences, FiniteSets, TLC

VARIABLES
    pc,        \* position in make_model / forward
    cfg,       \* arguments of make_model and of forward, and the machine (cuda)
    params,    \* model.parameters(): the parameters registered under the model
    inited,    \* parameters nn.init.xavier_uniform was applied to
    tape,      \* the computation graph built so far
    attn,      \* MultiHeadedAttention.attn of every attention module (0 is None)
    loc,       \* locals of encode / Encoder.forward / decode / Decoder.forward
    calls,     \* per direction: what encode and decode were given and returned
    used,      \* per direction: the modules whose forward ran
    at,        \* SpecAttn: one call of attention()
    dc         \* SpecDec: the decoder run on a pair of targets

vars == <<pc, cfg, params, inited, tape, attn, loc, calls, used, at, dc>>

(***************************************************************************)
(* Bounds of the model.                                                    *)
(***************************************************************************)
MaxN == 2        \* number of layers N passed to make_model: 1..MaxN
MaxB == 2        \* batch size: 1..MaxB
MaxT == 3        \* token sequence length: 2..MaxT
MaxV == 2        \* video length: 1..MaxV

(***************************************************************************)
(* Program constants.                                                      *)
(***************************************************************************)
d_model == 512
d_ff == 2048
h == 8
NumClasses == 401
VideoDim == 1024

VocabPairs == {<<100, 120>>, <<120, 100>>}

Directions == {"en2ko", "ko2en"}

(***************************************************************************)
(* Modules.  A module is named by the attribute path that reaches it:      *)
(* owner (an attribute of EncoderDecoder), layer (index into .layers,      *)
(* 1-based; 0 outside a layer), name (attribute inside the layer).         *)
(***************************************************************************)
Mod(owner, layer, name) == [owner |-> owner, layer |-> layer, name |-> name]

NoMod == Mod("-", 0, "-")

SubName(k) == <<"sublayer0", "sublayer1", "sublayer2", "sublayer3", "sublayer4">>[k + 1]

AttnNames == {"self_attn", "vid_attn", "seq_attn", "src_attn"}

\* EncoderLayer.__init__: the attributes holding modules, sublayer = clones(.., 5)
EncoderLayerModules(k) ==
    {Mod("encoder", k, n) : n \in {"self_attn", "vid_attn", "seq_attn", "ff1", "ff2"}}
    \cup {Mod("encoder", k, SubName(i)) : i \in 0..4}

\* DecoderLayer.__init__: sublayer = clones(.., 3)
DecoderLayerModules(k) ==
    {Mod("decoder", k, n) : n \in {"self_attn", "src_attn", "feed_forward"}}
    \cup {Mod("decoder", k, SubName(i)) : i \in 0..2}

\* make_model: the classifier handed to EncoderLayer, deep-copied by clones with
\* the layer: one nn.Linear, or a dict of two nn.Linear
ClassifierModules(share_classifier, k) ==
    IF share_classifier
    THEN {Mod("encoder", k, "classifier")}
    ELSE {Mod("encoder", k, "classifier_en"), Mod("encoder", k, "classifier_ko")}

\* Every module holding weights that make_model builds into the returned model
AllModules(c) ==
    {Mod("en_embed", 0, "lut"), Mod("ko_embed", 0, "lut"),
     Mod("vid_encoder", 0, "linear"),
     Mod("en_generator", 0, "proj"), Mod("ko_generator", 0, "proj"),
     Mod("encoder", 0, "norm"), Mod("decoder", 0, "norm")}
    \cup UNION {EncoderLayerModules(k) : k \in 1..c.N}
    \cup UNION {DecoderLayerModules(k) : k \in 1..c.N}
    \cup UNION {ClassifierModules(c.share_classifier, k) : k \in 1..c.N}

\* nn.Module.__setattr__ registers a value as a submodule only when it is an
\* nn.Module: EncoderLayer.classifier is registered when it is the shared
\* nn.Linear and is a plain attribute when it is the dict {'en':.., 'ko':..}
RegisteredModules(c) ==
    {m \in AllModules(c) : m.name \notin {"classifier_en", "classifier_ko"}}

Param(m, name, dim) == [mod |-> m, name |-> name, dim |-> dim]

\* The learnable tensors each kind of module creates in its __init__
ParamsOf(m) ==
    IF m.name \in AttnNames
    THEN {Param(m, n, 2) : n \in {"linears0.weight", "linears1.weight",
                                   "linears2.weight", "linears3.weight"}}
         \cup {Param(m, n, 1) : n \in {"linears0.bias", "linears1.bias",
                                        "linears2.bias", "linears3.bias"}}
    ELSE IF m.name \in {"ff1", "ff2", "feed_forward"}
    THEN {Param(m, "w_1.weight", 2), Param(m, "w_2.weight", 2),
          Param(m, "w_1.bias", 1), Param(m, "w_2.bias", 1)}
    ELSE IF m.name \in {"norm", "sublayer0", "sublayer1", "sublayer2",
                        "sublayer3", "sublayer4"}
    THEN {Param(m, "a_2", 1), Param(m, "b_2", 1)}
    ELSE IF m.name \in {"classifier", "classifier_en", "classifier_ko", "lut"}
    THEN {Param(m, "weight", 2)}
    ELSE IF m.name \in {"linear", "proj"}
    THEN {Param(m, "weight", 2), Param(m, "bias", 1)}
    ELSE {}

\* model.parameters()
ModelParameters(c) == UNION {ParamsOf(m) : m \in RegisteredModules(c)}

\* for p in model.parameters(): if p.dim() > 1: nn.init.xavier_uniform(p)
XavierLoop(ps) == {p \in ps : p.dim > 1}

\* .cuda() on the per-language classifiers raises on a machine without CUDA
MakeModelRaises(c) == ~c.share_classifier /\ ~c.cuda


(***************************************************************************)
(* The computation graph.  A node is one tensor: the operation producing   *)
(* it, the module owning the operation, the nodes read (args), the shape   *)
(* and, for a softmax, the axis normalised (attr).  Operators below take   *)
(* the interpreter state st = [tape, attn, used] and return the new one;   *)
(* the tensor an operator returns is the last node of the tape, Out(st).   *)
(***************************************************************************)
Node(op, m, args, shape, attr) ==
    [op |-> op, mod |-> m, args |-> args, shape |-> shape, attr |-> attr]

Out(st) == Len(st.tape)

ShapeOf(st, x) == st.tape[x].shape

Emit(st, n) ==
    [st EXCEPT !.tape = Append(@, n),
               !.used = IF n.mod = NoMod THEN @ ELSE @ \cup {n.mod}]

\* The arguments of forward: en, ensrc_mask, entgt_mask, ko, kosrc_mask,
\* kotgt_mask, video, video_mask.  The target masks cover the shifted targets.
en_id == 1
ensrc_mask_id == 2
entgt_mask_id == 3
ko_id == 4
kosrc_mask_id == 5
kotgt_mask_id == 6
video_id == 7
video_mask_id == 8

InputTape(c) ==
    << Node("en", NoMod, <<>>, <<c.B, c.T>>, 0),
       Node("ensrc_mask", NoMod, <<>>, <<c.B, 1, c.T>>, 0),
       Node("entgt_mask", NoMod, <<>>, <<c.B, c.T - 1, c.T - 1>>, 0),
       Node("ko", NoMod, <<>>, <<c.B, c.T>>, 0),
       Node("kosrc_mask", NoMod, <<>>, <<c.B, 1, c.T>>, 0),
       Node("kotgt_mask", NoMod, <<>>, <<c.B, c.T - 1, c.T - 1>>, 0),
       Node("video", NoMod, <<>>, <<c.B, c.V, VideoDim>>, 0),
       Node("video_mask", NoMod, <<>>, <<c.B, 1, c.V>>, 0) >>

\* The value of a one-element set.  Binding a name as the element of a
\* one-element set ({ body : x \in {e} }) evaluates e once, where the source
\* assigns a local variable.
One(S) == CHOOSE r \in S : TRUE

\* DropLast without the slice: the whole target is kept
DropLast_keepAll(st, x) ==
    Emit(st, Node("x[:, :-1]", NoMod, <<x>>, ShapeOf(st, x), 0))

\* x[:, :-1]
DropLast(st, x) ==
    Emit(st, Node("x[:, :-1]", NoMod, <<x>>, <<ShapeOf(st, x)[1], ShapeOf(st, x)[2] - 1>>, 0))

\* nn.Dropout
Dropout(st, m, x) == Emit(st, Node("Dropout", m, <<x>>, ShapeOf(st, x), 0))

\* The shape nn.Linear(_, d_out) gives: the last axis becomes d_out
LinearShape(s, d_out) == SubSeq(s, 1, Len(s) - 1) \o <<d_out>>

\* nn.Linear(_, d_out)
Linear(st, m, op, x, d_out) ==
    Emit(st, Node(op, m, <<x>>, LinearShape(ShapeOf(st, x), d_out), 0))

\* Embeddings.forward: self.lut(x) * math.sqrt(self.d_model)
Embeddings_forward(st, m, x) ==
    Emit(st, Node("Embeddings", m, <<x>>, ShapeOf(st, x) \o <<d_model>>, 0))

\* PositionalEncoding.forward: x + pe[:, :x.size(1)], then dropout
PositionalEncoding_forward(st, m, x) ==
    One({ Dropout(a, m, Out(a))
          : a \in {Emit(st, Node("add_pe", m, <<x>>, ShapeOf(st, x), 0))} })

\* en_embed / ko_embed = nn.Sequential(Embeddings, PositionalEncoding)
Embed(st, owner, x) ==
    One({ PositionalEncoding_forward(e, Mod(owner, 0, "position"), Out(e))
          : e \in {Embeddings_forward(st, Mod(owner, 0, "lut"), x)} })

\* vid_encode: vid_encoder = nn.Sequential(nn.Linear(1024, d_model), nn.ReLU(),
\* PositionalEncoding)
vid_encode(st, video_features) ==
    One({ One({ PositionalEncoding_forward(r, Mod("vid_encoder", 0, "position"), Out(r))
          : r \in {Emit(l, Node("ReLU", Mod("vid_encoder", 0, "relu"), <<Out(l)>>,
                                ShapeOf(l, Out(l)), 0))} })
          : l \in {Linear(st, Mod("vid_encoder", 0, "linear"), "Linear",
                          video_features, d_model)} })

\* LayerNorm.forward
LayerNorm_forward(st, m, x) ==
    Emit(st, Node("LayerNorm", m, <<x>>, ShapeOf(st, x), 0))

\* StoreAttn dropping the weights: x, _ = attention(...)
StoreAttn_discard(st, m, p_attn) == st

\* x, self.attn = attention(...): the module keeps the weights it was handed
StoreAttn(st, m, p_attn) == [st EXCEPT !.attn[m] = p_attn]

\* The shape of the attention weights: (batch, heads, time_q, time_k)
WeightShape(q, k) == <<q[1], q[2], q[3], k[3]>>

\* attention(query, key, value, mask, dropout): scores, masked_fill, softmax
\* over the key axis, dropout; returns (matmul(p_attn, value), p_attn).  The
\* result is the last node; p_attn is the node before it.
attention(st, m, query, key, value, mask) ==
    One({ One({ One({ One({
        Emit(s4, Node("matmul", m, <<Out(s4), value>>, ShapeOf(s4, query), 0))
        : s4 \in {Emit(s3, Node("p_attn", m, <<Out(s3)>>, ShapeOf(s3, Out(s3)), 0))} })
        : s3 \in {Emit(s2, Node("softmax", m, <<Out(s2)>>, ShapeOf(s2, Out(s2)), 3))} })
        : s2 \in {Emit(s1, Node("masked_fill", m, <<Out(s1), mask>>, ShapeOf(s1, Out(s1)), 0))} })
        : s1 \in {Emit(st, Node("scores", m, <<query, key>>,
                                WeightShape(ShapeOf(st, query), ShapeOf(st, key)), 0))} })

\* l(x).view(nbatches, -1, self.h, self.d_k).transpose(1, 2)
Project(st, m, op, x) ==
    Emit(st, Node(op, m, <<x>>,
                  <<ShapeOf(st, x)[1], h, ShapeOf(st, x)[2], d_model \div h>>, 0))

\* x.transpose(1, 2).contiguous().view(nbatches, -1, self.h * self.d_k)
Merge(st, m, x) ==
    Emit(st, Node("view", m, <<x>>,
                  <<ShapeOf(st, x)[1], ShapeOf(st, x)[3], h * (d_model \div h)>>, 0))

\* mask.unsqueeze(1)
Unsqueeze1(st, mask) ==
    Emit(st, Node("unsqueeze(1)", NoMod, <<mask>>,
                  <<ShapeOf(st, mask)[1], 1, ShapeOf(st, mask)[2], ShapeOf(st, mask)[3]>>, 0))

\* MultiHeadedAttention.forward (read the bindings from the last line up)
MultiHeadedAttention_forward(st, m, query, key, value, mask) ==
    One({ One({ One({ One({ One({ One({ One({
        Linear(v, m, "linears3", Out(v), d_model)
        : v \in {Merge(sa, m, Out(sa))} })
        : sa \in {StoreAttn(a, m, Out(a) - 1)} })
        : a \in {attention(pv, m, Out(pv) - 2, Out(pv) - 1, Out(pv), Out(pv) - 3)} })
        : pv \in {Project(pk, m, "linears2", value)} })
        : pk \in {Project(pq, m, "linears1", key)} })
        : pq \in {Project(u, m, "linears0", query)} })
        : u \in {Unsqueeze1(st, mask)} })

\* PositionwiseFeedForward.forward: w_2(dropout(relu(w_1(x))))
PositionwiseFeedForward_forward(st, m, x) ==
    One({ One({ One({
        Linear(d, m, "w_2", Out(d), d_model)
        : d \in {Dropout(r, m, Out(r))} })
        : r \in {Emit(a, Node("relu", m, <<Out(a)>>, ShapeOf(a, Out(a)), 0))} })
        : a \in {Linear(st, m, "w_1", x, d_ff)} })

\* SublayerConnection: self.norm(x), the argument handed to the sublayer
SublayerConnection_norm(st, m, x) == LayerNorm_forward(st, m, x)

\* SublayerConnection.forward: x + self.dropout(y), y = sublayer(self.norm(x))
SublayerConnection_forward(st, m, x, y) ==
    One({ Emit(d, Node("add", m, <<x, Out(d)>>, ShapeOf(d, x), 0))
          : d \in {Dropout(st, m, y)} })

\* SublayerConnection.expand_forward: out.mean(1).unsqueeze(1).expand_as(x); x + out
SublayerConnection_expand_forward(st, m, x, y) ==
    One({ One({ One({
        Emit(e, Node("add", m, <<x, Out(e)>>, ShapeOf(e, x), 0))
        : e \in {Emit(a, Node("expand_as", m, <<Out(a), x>>, ShapeOf(a, x), 0))} })
        : a \in {Emit(d, Node("mean(1)", m, <<Out(d)>>,
                             <<ShapeOf(d, Out(d))[1], ShapeOf(d, Out(d))[3]>>, 0))} })
        : d \in {Dropout(st, m, y)} })

\* SublayerConnection.nosum_forward: self.dropout(y)
SublayerConnection_nosum_forward(st, m, x, y) == Dropout(st, m, y)

\* SublayerConnection_call running expand_forward instead of forward
SublayerConnection_call_expand(st, m, x, y) ==
    SublayerConnection_expand_forward(st, m, x, y)

\* self.sublayer[i](x, sublayer): nn.Module.__call__ runs forward
SublayerConnection_call(st, m, x, y) == SublayerConnection_forward(st, m, x, y)

\* self.sublayer[i](x, lambda x: attn(x, key, value, mask)) with key and value
\* given by the caller; self-attention passes the normed x as key and value too
AttnSublayer(st, sl, m, x, key, value, mask, selfattn) ==
    One({ One({
        SublayerConnection_call(a, sl, x, Out(a))
        : a \in {IF selfattn
                 THEN MultiHeadedAttention_forward(n, m, Out(n), Out(n), Out(n), mask)
                 ELSE MultiHeadedAttention_forward(n, m, Out(n), key, value, mask)} })
        : n \in {SublayerConnection_norm(st, sl, x)} })

\* self.sublayer[i](x, ff)
FFSublayer(st, sl, m, x) ==
    One({ One({
        SublayerConnection_call(f, sl, x, Out(f))
        : f \in {PositionwiseFeedForward_forward(n, m, Out(n))} })
        : n \in {SublayerConnection_norm(st, sl, x)} })

\* F.log_softmax(x, dim=-1)
log_softmax_last(st, x) ==
    Emit(st, Node("log_softmax", NoMod, <<x>>, ShapeOf(st, x), Len(ShapeOf(st, x)) - 1))

\* F.log_softmax(x) with no dim: torch picks the axis from the number of
\* dimensions, 0 for a 0-, 1- or 3-dimensional input and 1 otherwise
log_softmax_nodim(st, x) ==
    Emit(st, Node("log_softmax", NoMod, <<x>>, ShapeOf(st, x),
                  IF Len(ShapeOf(st, x)) \in {0, 1, 3} THEN 0 ELSE 1))

\* EncoderLayer.forward, the classifier branch.  make_model hands over a dict
\* exactly when share_classifier is false.
Classify(st, k, seq_vid, type, share_classifier) ==
    IF ~share_classifier
    THEN IF type = "en2ko"
         THEN One({ log_softmax_last(l, Out(l))
                    : l \in {Linear(st, Mod("encoder", k, "classifier_en"), "Linear",
                                    seq_vid, NumClasses)} })
         ELSE One({ log_softmax_last(l, Out(l))
                    : l \in {Linear(st, Mod("encoder", k, "classifier_ko"), "Linear",
                                    seq_vid, NumClasses)} })
    ELSE One({ log_softmax_nodim(l, Out(l))
               : l \in {Linear(st, Mod("encoder", k, "classifier"), "Linear",
                               seq_vid, NumClasses)} })

\* EncoderLayer_forward handing seq, not vid_seq, to sublayer[4]
EncoderLayer_forward_ff1OnSeq(st, k, seq0, seq_mask, video, video_mask, type, share_classifier) ==
    One({ One({ One({ One({ One({ One({
        [st |-> s4, x_in |-> seq0, video |-> video, video_mask |-> video_mask,
         seq |-> Out(s0), vid_seq |-> Out(s1), seq_vid2 |-> Out(s2),
         seq_vid |-> Out(s3), act_pred |-> Out(cl), text |-> Out(s4)]
        \* return self.sublayer[4](seq, self.ff1), act_pred
        : s4 \in {FFSublayer(cl, Mod("encoder", k, SubName(4)), Mod("encoder", k, "ff1"),
                             Out(s0))} })
        \* act_pred = F.log_softmax(classifier(seq_vid) ...)
        : cl \in {Classify(s3, k, Out(s3), type, share_classifier)} })
        \* seq_vid = self.sublayer[3](seq_vid, self.ff2)
        : s3 \in {FFSublayer(s2, Mod("encoder", k, SubName(3)), Mod("encoder", k, "ff2"),
                             Out(s2))} })
        \* seq_vid = self.sublayer[2](video, lambda video: self.seq_attn(video, seq, seq, seq_mask))
        : s2 \in {AttnSublayer(s1, Mod("encoder", k, SubName(2)), Mod("encoder", k, "seq_attn"),
                               video, Out(s0), Out(s0), seq_mask, FALSE)} })
        \* vid_seq = self.sublayer[1](seq, lambda seq: self.vid_attn(seq, video, video, video_mask))
        : s1 \in {AttnSublayer(s0, Mod("encoder", k, SubName(1)), Mod("encoder", k, "vid_attn"),
                               Out(s0), video, video, video_mask, FALSE)} })
        \* seq = self.sublayer[0](seq, lambda seq: self.self_attn(seq, seq, seq, seq_mask))
        : s0 \in {AttnSublayer(st, Mod("encoder", k, SubName(0)), Mod("encoder", k, "self_attn"),
                               seq0, 0, 0, seq_mask, TRUE)} })

\* EncoderLayer.forward of layer k (read the bindings from the last line up).
\* Returns the state and the layer's locals; text is the first value returned.
EncoderLayer_forward(st, k, seq0, seq_mask, video, video_mask, type, share_classifier) ==
    One({ One({ One({ One({ One({ One({
        [st |-> s4, x_in |-> seq0, video |-> video, video_mask |-> video_mask,
         seq |-> Out(s0), vid_seq |-> Out(s1), seq_vid2 |-> Out(s2),
         seq_vid |-> Out(s3), act_pred |-> Out(cl), text |-> Out(s4)]
        \* return self.sublayer[4](vid_seq, self.ff1), act_pred
        : s4 \in {FFSublayer(cl, Mod("encoder", k, SubName(4)), Mod("encoder", k, "ff1"),
                             Out(s1))} })
        \* act_pred = F.log_softmax(classifier(seq_vid) ...)
        : cl \in {Classify(s3, k, Out(s3), type, share_classifier)} })
        \* seq_vid = self.sublayer[3](seq_vid, self.ff2)
        : s3 \in {FFSublayer(s2, Mod("encoder", k, SubName(3)), Mod("encoder", k, "ff2"),
                             Out(s2))} })
        \* seq_vid = self.sublayer[2](video, lambda video: self.seq_attn(video, seq, seq, seq_mask))
        : s2 \in {AttnSublayer(s1, Mod("encoder", k, SubName(2)), Mod("encoder", k, "seq_attn"),
                               video, Out(s0), Out(s0), seq_mask, FALSE)} })
        \* vid_seq = self.sublayer[1](seq, lambda seq: self.vid_attn(seq, video, video, video_mask))
        : s1 \in {AttnSublayer(s0, Mod("encoder", k, SubName(1)), Mod("encoder", k, "vid_attn"),
                               Out(s0), video, video, video_mask, FALSE)} })
        \* seq = self.sublayer[0](seq, lambda seq: self.self_attn(seq, seq, seq, seq_mask))
        : s0 \in {AttnSublayer(st, Mod("encoder", k, SubName(0)), Mod("encoder", k, "self_attn"),
                               seq0, 0, 0, seq_mask, TRUE)} })

\* DecoderLayer.forward of layer k (read the bindings from the last line up)
DecoderLayer_forward(st, k, x0, q_memory, q_mask, tgt_mask) ==
    One({ One({
        \* return self.sublayer[count](x, self.feed_forward)
        FFSublayer(s1, Mod("decoder", k, SubName(2)), Mod("decoder", k, "feed_forward"),
                   Out(s1))
        \* x = self.sublayer[count](x, lambda x: self.src_attn(x, q_memory, q_memory, q_mask))
        : s1 \in {AttnSublayer(s0, Mod("decoder", k, SubName(1)), Mod("decoder", k, "src_attn"),
                               Out(s0), q_memory, q_memory, q_mask, FALSE)} })
        \* x = self.sublayer[count](x, lambda x: self.self_attn(x, x, x, tgt_mask))
        : s0 \in {AttnSublayer(st, Mod("decoder", k, SubName(0)), Mod("decoder", k, "self_attn"),
                               x0, 0, 0, tgt_mask, TRUE)} })

\* EncoderDecoder.encode: the embedding table the source tokens go through
EncodeEmbed(type) == IF type = "en2ko" THEN "en_embed" ELSE "ko_embed"

\* DecodeEmbed picking the table encode picks
DecodeEmbed_sameTable(type) == IF type = "en2ko" THEN "en_embed" ELSE "ko_embed"

\* EncoderDecoder.decode: the embedding table the target tokens go through
DecodeEmbed(type) == IF type = "en2ko" THEN "ko_embed" ELSE "en_embed"

\* EncoderDecoder.forward: the arguments of the two passes
SrcOf(type) == IF type = "en2ko" THEN en_id ELSE ko_id
SrcMaskOf(type) == IF type = "en2ko" THEN ensrc_mask_id ELSE kosrc_mask_id
TgtOf(type) == IF type = "en2ko" THEN ko_id ELSE en_id
TgtMaskOf(type) == IF type = "en2ko" THEN kotgt_mask_id ELSE entgt_mask_id

(***************************************************************************)
(* Spec: make_model, then forward.                                         *)
(***************************************************************************)
Configs ==
    [en_vocab : {100, 120}, ko_vocab : {100, 120}, N : 1..MaxN,
     share_classifier : BOOLEAN, cuda : BOOLEAN,
     B : 1..MaxB, T : 2..MaxT, V : 1..MaxV]

NoCall == [src_emb |-> 0, vid_emb |-> 0, layers |-> <<>>, memory |-> 0,
           act_pred |-> 0, tgt_emb |-> 0, decoded |-> 0]

NoLoc == [type |-> "-", li |-> 0, x |-> 0, video |-> 0, act_pred |-> 0]

AttnIdle == [pc |-> "-", scores |-> <<>>, mask |-> <<>>, p_attn |-> <<>>]

DecIdle == [pc |-> "-", x |-> <<<<>>, <<>>>>, tgt |-> <<<<>>, <<>>>>, tgt_mask |-> <<>>]

Init ==
    /\ pc = "make"
    /\ cfg \in {c \in Configs : <<c.en_vocab, c.ko_vocab>> \in VocabPairs}
    /\ params = {}
    /\ inited = {}
    /\ tape = <<>>
    /\ attn = [m \in {} |-> 0]
    /\ loc = NoLoc
    /\ calls = [d \in Directions |-> NoCall]
    /\ used = [d \in Directions |-> {}]
    /\ at = AttnIdle
    /\ dc = DecIdle

St(type) == [tape |-> tape, attn |-> attn, used |-> used[type]]

\* make_model
MakeModel ==
    /\ pc = "make"
    /\ IF MakeModelRaises(cfg)
       THEN /\ pc' = "raised"
            /\ UNCHANGED <<params, inited, attn, tape>>
       ELSE /\ pc' = "encode"
            /\ params' = ModelParameters(cfg)
            /\ inited' = XavierLoop(ModelParameters(cfg))
            \* MultiHeadedAttention.__init__: self.attn = None
            /\ attn' = [m \in {x \in AllModules(cfg) : x.name \in AttnNames} |-> 0]
            /\ tape' = InputTape(cfg)
    /\ loc' = [NoLoc EXCEPT !.type = "en2ko"]
    /\ UNCHANGED <<cfg, calls, used, at, dc>>

\* EncoderDecoder.encode up to the call of self.encoder: the arguments are
\* evaluated first, self.<lang>_embed(query) and then self.vid_encode(video)
EncodeBegin ==
    /\ pc = "encode"
    /\ LET type == loc.type
           e == Embed(St(type), EncodeEmbed(type), SrcOf(type))
           v == vid_encode(e, video_id)
       IN /\ tape' = v.tape
          /\ attn' = v.attn
          /\ used' = [used EXCEPT ![type] = v.used]
          /\ loc' = [loc EXCEPT !.li = 0, !.x = Out(e), !.video = Out(v), !.act_pred = 0]
          /\ calls' = [calls EXCEPT ![type].src_emb = Out(e), ![type].vid_emb = Out(v)]
    /\ pc' = "enc_layers"
    /\ UNCHANGED <<cfg, params, inited, at, dc>>

\* EncoderLayerStep handing the layer's video-side output to the next layer
EncoderLayerStep_chainVideo ==
    /\ pc = "enc_layers"
    /\ loc.li < cfg.N
    /\ LET type == loc.type
           r == EncoderLayer_forward(St(type), loc.li + 1, loc.x, SrcMaskOf(type),
                                     loc.video, video_mask_id, type, cfg.share_classifier)
       IN /\ tape' = r.st.tape
          /\ attn' = r.st.attn
          /\ used' = [used EXCEPT ![type] = r.st.used]
          /\ loc' = [loc EXCEPT !.li = @ + 1, !.x = r.text, !.act_pred = r.act_pred,
                           !.video = r.seq_vid]
          /\ calls' = [calls EXCEPT ![type].layers =
                          Append(@, [f \in DOMAIN r \ {"st"} |-> r[f]])]
    /\ UNCHANGED <<pc, cfg, params, inited, at, dc>>

\* Encoder.forward, one turn of: for layer in self.layers: x, act_pred = layer(...)
EncoderLayerStep ==
    /\ pc = "enc_layers"
    /\ loc.li < cfg.N
    /\ LET type == loc.type
           r == EncoderLayer_forward(St(type), loc.li + 1, loc.x, SrcMaskOf(type),
                                     loc.video, video_mask_id, type, cfg.share_classifier)
       IN /\ tape' = r.st.tape
          /\ attn' = r.st.attn
          /\ used' = [used EXCEPT ![type] = r.st.used]
          /\ loc' = [loc EXCEPT !.li = @ + 1, !.x = r.text, !.act_pred = r.act_pred]
          /\ calls' = [calls EXCEPT ![type].layers =
                          Append(@, [f \in DOMAIN r \ {"st"} |-> r[f]])]
    /\ UNCHANGED <<pc, cfg, params, inited, at, dc>>

\* Encoder.forward: return self.norm(x), act_pred
EncoderReturn ==
    /\ pc = "enc_layers"
    /\ loc.li = cfg.N
    /\ LET type == loc.type
           n == LayerNorm_forward(St(type), Mod("encoder", 0, "norm"), loc.x)
       IN /\ tape' = n.tape
          /\ used' = [used EXCEPT ![type] = n.used]
          /\ calls' = [calls EXCEPT ![type].memory = Out(n), ![type].act_pred = loc.act_pred]
    /\ pc' = "decode"
    /\ UNCHANGED <<cfg, params, inited, attn, loc, at, dc>>

\* EncoderDecoder.decode up to the call of self.decoder, on the target forward
\* passes: ko[:, :-1] or en[:, :-1]
DecodeBegin ==
    /\ pc = "decode"
    /\ LET type == loc.type
           t == DropLast(St(type), TgtOf(type))
           e == Embed(t, DecodeEmbed(type), Out(t))
       IN /\ tape' = e.tape
          /\ used' = [used EXCEPT ![type] = e.used]
          /\ loc' = [loc EXCEPT !.li = 0, !.x = Out(e)]
          /\ calls' = [calls EXCEPT ![type].tgt_emb = Out(e)]
    /\ pc' = "dec_layers"
    /\ UNCHANGED <<cfg, params, inited, attn, at, dc>>

\* Decoder.forward, one turn of: for layer in self.layers: x = layer(...)
DecoderLayerStep ==
    /\ pc = "dec_layers"
    /\ loc.li < cfg.N
    /\ LET type == loc.type
           r == DecoderLayer_forward(St(type), loc.li + 1, loc.x, calls[type].memory,
                                     SrcMaskOf(type), TgtMaskOf(type))
       IN /\ tape' = r.tape
          /\ attn' = r.attn
          /\ used' = [used EXCEPT ![type] = r.used]
          /\ loc' = [loc EXCEPT !.li = @ + 1, !.x = Out(r)]
    /\ UNCHANGED <<pc, cfg, params, inited, calls, at, dc>>

\* Decoder.forward: return self.norm(x); forward then starts the ko2en pass or
\* returns en_decoded, ko_decoded, en_act_pred, ko_act_pred
DecoderReturn ==
    /\ pc = "dec_layers"
    /\ loc.li = cfg.N
    /\ LET type == loc.type
           n == LayerNorm_forward(St(type), Mod("decoder", 0, "norm"), loc.x)
       IN /\ tape' = n.tape
          /\ used' = [used EXCEPT ![type] = n.used]
          /\ calls' = [calls EXCEPT ![type].decoded = Out(n)]
          /\ IF type = "en2ko"
             THEN /\ pc' = "encode"
                  /\ loc' = [NoLoc EXCEPT !.type = "ko2en"]
             ELSE /\ pc' = "done"
                  /\ loc' = loc
    /\ UNCHANGED <<cfg, params, inited, attn, at, dc>>

Next ==
    \/ MakeModel
    \/ EncodeBegin
    \/ EncoderLayerStep
    \/ EncoderReturn
    \/ DecodeBegin
    \/ DecoderLayerStep
    \/ DecoderReturn

Spec == Init /\ [][Next]_vars


(***************************************************************************)
(* Reading the computation graph.                                          *)
(***************************************************************************)
Arg(n, i) == tape[n].args[i]

Is(n, op, m) == tape[n].op = op /\ tape[n].mod = m

\* n is x + dropout(y) computed by sublayer connection sl
IsResidual(n, sl) == Is(n, "add", sl) /\ Is(Arg(n, 2), "Dropout", sl)
ResidualInput(n) == Arg(n, 1)
ResidualBranch(n) == Arg(Arg(n, 2), 1)

\* y is the output of feed-forward module ff; FFInput(y) is what it was given
IsFF(y, ff) ==
    /\ Is(y, "w_2", ff)
    /\ Is(Arg(y, 1), "Dropout", ff)
    /\ Is(Arg(Arg(y, 1), 1), "relu", ff)
    /\ Is(Arg(Arg(Arg(y, 1), 1), 1), "w_1", ff)
FFInput(y) == Arg(Arg(Arg(Arg(y, 1), 1), 1), 1)

\* y is the output of attention module m; its query, key, value, mask inputs
\* and the weights it multiplied the values by
IsMHA(y, m) ==
    /\ Is(y, "linears3", m)
    /\ Is(Arg(y, 1), "view", m)
    /\ Is(Arg(Arg(y, 1), 1), "matmul", m)
MHAWeights(y) == Arg(Arg(Arg(y, 1), 1), 1)
MHAValue(y) == Arg(Arg(Arg(Arg(y, 1), 1), 2), 1)
MHAScores(y) == Arg(Arg(Arg(MHAWeights(y), 1), 1), 1)
MHAQuery(y) == Arg(Arg(MHAScores(y), 1), 1)
MHAKey(y) == Arg(Arg(MHAScores(y), 2), 1)
MHAMask(y) == Arg(Arg(Arg(Arg(MHAWeights(y), 1), 1), 2), 1)

\* n is self.norm(x) of sublayer connection sl (or of a stack); its input
IsNorm(n, sl) == Is(n, "LayerNorm", sl)
NormInput(n) == Arg(n, 1)

\* The nodes read by the nodes of S
ArgsOf(S) == UNION {{tape[i].args[j] : j \in DOMAIN tape[i].args} : i \in S}

\* The nodes from lo up that are read, directly or not, to compute the nodes
\* of S (S included)
RECURSIVE ReadBy(_, _)
ReadBy(S, lo) ==
    One({ IF R = S THEN S ELSE ReadBy(R, lo)
          : R \in {S \cup {a \in ArgsOf(S) : a >= lo}} })

\* The nodes computed since node lo that node n was computed from
Ancestors(n, lo) == ReadBy({n}, lo)

\* Every call of EncoderLayer.forward made so far: <<direction, layer>>
LayerCallsMade ==
    UNION {{<<d, k>> : k \in 1..Len(calls[d].layers)} : d \in Directions}

Enc(k, name) == Mod("encoder", k, name)

(***************************************************************************)
(* Claims checked under Spec.                                              *)
(***************************************************************************)

\* C1 (as stated): the text an encoder layer returns is the output of
\* sublayer[0] (the post-self-attention text) passed through ff1 with
\* residual+norm, and the output of sublayer[1] (vid_seq) is never read to
\* produce it.
C1_TextIgnoresVideoBranch ==
    \A dk \in LayerCallsMade :
        LET k == dk[2]
            r == calls[dk[1]].layers[k]
        IN /\ IsResidual(r.seq, Enc(k, "sublayer0"))
           /\ IsResidual(r.text, Enc(k, "sublayer4"))
           /\ ResidualInput(r.text) = r.seq
           /\ IsFF(ResidualBranch(r.text), Enc(k, "ff1"))
           /\ NormInput(FFInput(ResidualBranch(r.text))) = r.seq
           /\ r.vid_seq \notin Ancestors(r.text, r.seq)

\* C1 (amended): the text an encoder layer returns is vid_seq, the output of
\* sublayer[1] (text attending over video, applied to the output of
\* sublayer[0]), passed through ff1 with residual+norm by sublayer[4]; the
\* post-self-attention text reaches the result only through vid_seq.
C1_TextFromVideoBranch ==
    \A dk \in LayerCallsMade :
        LET k == dk[2]
            r == calls[dk[1]].layers[k]
        IN /\ IsResidual(r.seq, Enc(k, "sublayer0"))
           /\ IsResidual(r.vid_seq, Enc(k, "sublayer1"))
           /\ ResidualInput(r.vid_seq) = r.seq
           /\ IsMHA(ResidualBranch(r.vid_seq), Enc(k, "vid_attn"))
           /\ IsResidual(r.text, Enc(k, "sublayer4"))
           /\ ResidualInput(r.text) = r.vid_seq
           /\ IsFF(ResidualBranch(r.text), Enc(k, "ff1"))
           /\ IsNorm(FFInput(ResidualBranch(r.text)), Enc(k, "sublayer4"))
           /\ NormInput(FFInput(ResidualBranch(r.text))) = r.vid_seq
           /\ r.vid_seq # r.seq
           /\ r.vid_seq \in Ancestors(r.text, r.seq)

\* C1 witness: forward has returned after running every encoder layer in both
\* directions, and vid_seq and seq are different tensors
C1_Witness ==
    /\ pc = "done"
    /\ cfg.N = MaxN
    /\ \A d \in Directions : Len(calls[d].layers) = cfg.N
    /\ \A dk \in LayerCallsMade :
           calls[dk[1]].layers[dk[2]].vid_seq # calls[dk[1]].layers[dk[2]].seq

\* C2 (as stated): forward returns tensors of shapes (B, T, ko_vocab),
\* (B, T, en_vocab), (B, V, 401), (B, V, 401).
C2_ShapesWithVocab ==
    pc = "done" =>
        /\ tape[calls["en2ko"].decoded].shape = <<cfg.B, cfg.T, cfg.ko_vocab>>
        /\ tape[calls["ko2en"].decoded].shape = <<cfg.B, cfg.T, cfg.en_vocab>>
        /\ tape[calls["en2ko"].act_pred].shape = <<cfg.B, cfg.V, 401>>
        /\ tape[calls["ko2en"].act_pred].shape = <<cfg.B, cfg.V, 401>>

\* C2 (amended): forward returns the decoder's hidden states, of shape
\* (B, T-1, d_model) in both directions (the target loses its last token and
\* no generator is applied), and two action predictions of shape (B, V, 401).
C2_ShapesHidden ==
    pc = "done" =>
        /\ tape[calls["en2ko"].decoded].shape = <<cfg.B, cfg.T - 1, 512>>
        /\ tape[calls["ko2en"].decoded].shape = <<cfg.B, cfg.T - 1, 512>>
        /\ tape[calls["en2ko"].act_pred].shape = <<cfg.B, cfg.V, 401>>
        /\ tape[calls["ko2en"].act_pred].shape = <<cfg.B, cfg.V, 401>>
        /\ \A d \in Directions : \A m \in used[d] : m.name # "proj"

\* C2 witness: forward has returned for vocabularies 100/120, a batch of 2,
\* 3 tokens and 2 video positions
C2_Witness ==
    /\ pc = "done"
    /\ cfg.en_vocab = 100 /\ cfg.ko_vocab = 120
    /\ cfg.B = 2 /\ cfg.T = 3 /\ cfg.V = 2
    /\ calls["en2ko"].decoded # 0 /\ calls["ko2en"].decoded # 0

\* The token tensor an embedded sequence (dropout(add_pe(Embeddings(x)))) was
\* looked up from, and the table used
EmbTable(n) == tape[Arg(Arg(n, 1), 1)].mod
EmbTokens(n) == Arg(Arg(Arg(n, 1), 1), 1)

StackModules ==
    {Mod("encoder", 0, "norm"), Mod("decoder", 0, "norm")}
    \cup UNION {EncoderLayerModules(k) : k \in 1..cfg.N}
    \cup UNION {DecoderLayerModules(k) : k \in 1..cfg.N}

\* C3: encode embeds the source with en_embed for en2ko and ko_embed for
\* ko2en, decode embeds the target with the opposite table; both directions
\* run the same encoder and decoder modules, and the video is embedded by
\* vid_encoder in both.
C3_EmbeddingByDirection ==
    /\ calls["en2ko"].src_emb # 0 =>
           /\ EmbTable(calls["en2ko"].src_emb) = Mod("en_embed", 0, "lut")
           /\ tape[EmbTokens(calls["en2ko"].src_emb)].op = "en"
    /\ calls["ko2en"].src_emb # 0 =>
           /\ EmbTable(calls["ko2en"].src_emb) = Mod("ko_embed", 0, "lut")
           /\ tape[EmbTokens(calls["ko2en"].src_emb)].op = "ko"
    /\ calls["en2ko"].tgt_emb # 0 =>
           /\ EmbTable(calls["en2ko"].tgt_emb) = Mod("ko_embed", 0, "lut")
           /\ tape[Arg(EmbTokens(calls["en2ko"].tgt_emb), 1)].op = "ko"
    /\ calls["ko2en"].tgt_emb # 0 =>
           /\ EmbTable(calls["ko2en"].tgt_emb) = Mod("en_embed", 0, "lut")
           /\ tape[Arg(EmbTokens(calls["ko2en"].tgt_emb), 1)].op = "en"
    /\ \A d \in Directions : calls[d].vid_emb # 0 =>
           /\ Is(Arg(Arg(Arg(calls[d].vid_emb, 1), 1), 1), "Linear",
                 Mod("vid_encoder", 0, "linear"))
           /\ tape[Arg(Arg(Arg(Arg(calls[d].vid_emb, 1), 1), 1), 1)].op = "video"
    /\ \A dk \in LayerCallsMade :
           /\ dk[2] = 1 => calls[dk[1]].layers[1].x_in = calls[dk[1]].src_emb
           /\ calls[dk[1]].layers[dk[2]].video = calls[dk[1]].vid_emb
    /\ pc = "done" =>
           \A d \in Directions : used[d] \cap StackModules = StackModules

\* C3 witness: forward has returned, both directions having embedded a source
\* and a target
C3_Witness ==
    /\ pc = "done"
    /\ \A d \in Directions : calls[d].src_emb # 0 /\ calls[d].tgt_emb # 0
    /\ EmbTable(calls["ko2en"].tgt_emb) # EmbTable(calls["ko2en"].src_emb)

\* C4 (as stated): once make_model has returned, every weight of 2 or more
\* dimensions that forward uses is enumerated by model.parameters() and was
\* initialized by the Xavier loop; 1-D parameters were not touched by it.
C4_AllWeightsOwnedAndInitialized ==
    /\ \A d \in Directions : \A m \in used[d] : \A p \in ParamsOf(m) :
           p.dim >= 2 => p \in params /\ p \in inited
    /\ \A p \in inited : p.dim >= 2

\* C7 (as stated): the action prediction of every encoder layer is a
\* log-softmax along the last (class) axis of a (B, V, 401) tensor, with the
\* per-language classifiers and with the shared one.
C7_ActPredOverClassAxis ==
    \A dk \in LayerCallsMade :
        LET a == calls[dk[1]].layers[dk[2]].act_pred
        IN /\ tape[a].op = "log_softmax"
           /\ tape[a].shape = <<cfg.B, cfg.V, 401>>
           /\ tape[a].attr = 2

\* C8 (as stated): sublayer[1] (query = text, key/value = video) is applied
\* with expand_forward (mean over time, broadcast, added to the input) and
\* sublayer[2] (query = video, key/value = text) with nosum_forward (no
\* residual add).
C8_PoolingAndPassThrough ==
    \A dk \in LayerCallsMade :
        LET k == dk[2]
            r == calls[dk[1]].layers[k]
        IN /\ Is(r.vid_seq, "add", Enc(k, "sublayer1"))
           /\ Is(Arg(r.vid_seq, 2), "expand_as", Enc(k, "sublayer1"))
           /\ Is(r.seq_vid2, "Dropout", Enc(k, "sublayer2"))

\* C8 (amended): sublayer[1] (query = normed text, key/value = video) and
\* sublayer[2] (query = normed video, key/value = text) are both applied with
\* the standard residual, x + dropout(sublayer(norm(x))); expand_forward and
\* nosum_forward are never run.
C8_StandardResidualBoth ==
    /\ \A dk \in LayerCallsMade :
        LET k == dk[2]
            r == calls[dk[1]].layers[k]
            y1 == ResidualBranch(r.vid_seq)
            y2 == ResidualBranch(r.seq_vid2)
        IN /\ IsResidual(r.vid_seq, Enc(k, "sublayer1"))
           /\ ResidualInput(r.vid_seq) = r.seq
           /\ IsMHA(y1, Enc(k, "vid_attn"))
           /\ IsNorm(MHAQuery(y1), Enc(k, "sublayer1"))
           /\ NormInput(MHAQuery(y1)) = r.seq
           /\ MHAKey(y1) = r.video /\ MHAValue(y1) = r.video
           /\ IsResidual(r.seq_vid2, Enc(k, "sublayer2"))
           /\ ResidualInput(r.seq_vid2) = r.video
           /\ IsMHA(y2, Enc(k, "seq_attn"))
           /\ IsNorm(MHAQuery(y2), Enc(k, "sublayer2"))
           /\ NormInput(MHAQuery(y2)) = r.video
           /\ MHAKey(y2) = r.seq /\ MHAValue(y2) = r.seq
           /\ tape[r.seq_vid2].shape = tape[r.video].shape
    /\ \A i \in 1..Len(tape) : tape[i].op \notin {"mean(1)", "expand_as"}

\* C8 witness: an encoder layer has run both cross-modal sublayers
C8_Witness ==
    /\ LayerCallsMade # {}
    /\ \E dk \in LayerCallsMade :
           /\ calls[dk[1]].layers[dk[2]].vid_seq # 0
           /\ calls[dk[1]].layers[dk[2]].seq_vid2 # 0
           /\ dk[1] = "ko2en"

\* The weights attention module m computed in its latest call (0: no call yet)
LatestWeights(m) ==
    LET S == {i \in 1..Len(tape) : Is(i, "p_attn", m)}
    IN IF S = {} THEN 0 ELSE CHOOSE i \in S : \A j \in S : j <= i

\* C9 (as stated): no attention module holds an attention-weight tensor: the
\* module state is what it was before any call.
C9_NoWeightsHeld == \A m \in DOMAIN attn : attn[m] = 0

\* C9 (amended): every attention module holds in self.attn the weights of its
\* most recent call (None before its first call), each call overwriting the
\* previous call's weights; no older weights are kept.
C9_HoldsLatestWeights == \A m \in DOMAIN attn : attn[m] = LatestWeights(m)

\* C9 witness: forward has returned and an attention module holds the weights
\* of its second call, the first call's weights having been overwritten
C9_Witness ==
    /\ pc = "done"
    /\ \E m \in DOMAIN attn :
           /\ attn[m] # 0
           /\ \E i \in 1..Len(tape) : Is(i, "p_attn", m) /\ i < attn[m]

\* The nodes vid_encoder's linear layer produced between two nodes
VidEncodes(a, b) ==
    {i \in a..b : Is(i, "Linear", Mod("vid_encoder", 0, "linear"))}

\* C10: in one encode call the video is embedded once, before any encoder
\* layer runs; layer 1 gets the embedded source, layer k the text returned by
\* layer k-1, every layer the same embedded video and video mask; encode
\* returns the closing norm of the last layer's text and the last layer's
\* action prediction.
C10_EncoderStack ==
    \A d \in Directions :
        LET c == calls[d]
        IN /\ \A k \in 1..Len(c.layers) :
                  /\ c.layers[k].x_in = IF k = 1 THEN c.src_emb ELSE c.layers[k - 1].text
                  /\ c.layers[k].video = c.vid_emb
                  /\ tape[c.layers[k].video_mask].op = "video_mask"
                  /\ c.vid_emb < c.layers[k].seq
                  /\ Cardinality(VidEncodes(c.src_emb, c.layers[k].text)) = 1
           /\ c.memory # 0 =>
                  /\ Len(c.layers) = cfg.N
                  /\ IsNorm(c.memory, Mod("encoder", 0, "norm"))
                  /\ NormInput(c.memory) = c.layers[cfg.N].text
                  /\ c.act_pred = c.layers[cfg.N].act_pred
                  /\ Cardinality(VidEncodes(c.src_emb, c.memory)) = 1
                  /\ \A i \in c.src_emb..c.memory :
                         tape[i].mod.owner = "encoder" => i > c.vid_emb

\* C10 witness: an encode call over more than one layer has returned
C10_Witness ==
    \E d \in Directions :
        /\ calls[d].memory # 0
        /\ Len(calls[d].layers) >= 2
        /\ calls[d].act_pred # calls[d].layers[1].act_pred


(***************************************************************************)
(* SpecAttn: attention(query, key, value, mask) on one batch element and   *)
(* one head, with d_k = 1 (sqrt(d_k) = 1), so that scores[i][j] =          *)
(* query[i] * key[j].  Probabilities are fractions with a thousandths      *)
(* numerator: p_attn[i][j] / den[i].                                       *)
(***************************************************************************)
MaxQ == 2        \* query positions: 1..MaxQ
MaxK == 2        \* key positions: 1..MaxK

MaskFill == -1000000000

Vals == {-1, 1}

\* exp(d) in thousandths for d <= 0, rounded; it underflows to 0 far below
ExpMilli(d) ==
    IF d = 0 THEN 1000
    ELSE IF d = -1 THEN 368
    ELSE IF d = -2 THEN 135
    ELSE IF d = -3 THEN 50
    ELSE IF d = -4 THEN 18
    ELSE IF d = -5 THEN 7
    ELSE IF d = -6 THEN 2
    ELSE IF d = -7 THEN 1
    ELSE 0

RECURSIVE SumSeq(_)
SumSeq(q) == IF q = <<>> THEN 0 ELSE q[1] + SumSeq(Tail(q))

MaxOf(q) == CHOOSE x \in {q[j] : j \in DOMAIN q} : \A j \in DOMAIN q : q[j] <= x

\* torch.matmul(query, key.transpose(-2, -1)) / math.sqrt(d_k)
Scores(query, key) ==
    [i \in DOMAIN query |-> [j \in DOMAIN key |-> query[i] * key[j]]]

\* MaskedFill writing 0 instead of -1e9
MaskedFill_zero(scores, mask) ==
    [i \in DOMAIN scores |->
        [j \in DOMAIN scores[i] |-> IF mask[i][j] = 0 THEN 0 ELSE scores[i][j]]]

\* scores.masked_fill(mask == 0, -1e9)
MaskedFill(scores, mask) ==
    [i \in DOMAIN scores |->
        [j \in DOMAIN scores[i] |-> IF mask[i][j] = 0 THEN MaskFill ELSE scores[i][j]]]

\* F.softmax(scores, dim=-1): exp(x - max) over the key axis, then divided by
\* the row's sum (kept apart, as SoftmaxDen)
SoftmaxNum(scores) ==
    [i \in DOMAIN scores |->
        [j \in DOMAIN scores[i] |-> ExpMilli(scores[i][j] - MaxOf(scores[i]))]]

SoftmaxDen(num) == [i \in DOMAIN num |-> SumSeq(num[i])]

\* torch.matmul(p_attn, value), over the same denominators
Matmul(p, value) ==
    [i \in DOMAIN p |-> SumSeq([j \in DOMAIN value |-> p[i][j] * value[j]])]

AttnInputs ==
    UNION {[query : [1..tq -> Vals], key : [1..tk -> Vals], value : [1..tk -> Vals],
            mask : [1..tq -> [1..tk -> {0, 1}]]] : tq \in 1..MaxQ, tk \in 1..MaxK}

FwdIdle ==
    /\ pc = "-"
    /\ cfg = [en_vocab |-> 0, ko_vocab |-> 0, N |-> 0, share_classifier |-> FALSE,
              cuda |-> FALSE, B |-> 0, T |-> 0, V |-> 0]
    /\ params = {}
    /\ inited = {}
    /\ tape = <<>>
    /\ attn = [m \in {} |-> 0]
    /\ loc = NoLoc
    /\ calls = [d \in Directions |-> NoCall]
    /\ used = [d \in Directions |-> {}]

fwdvars == <<pc, cfg, params, inited, tape, attn, loc, calls, used>>

InitAttn ==
    /\ FwdIdle
    /\ dc = DecIdle
    /\ \E a \in AttnInputs :
           at = [pc |-> "scores", query |-> a.query, key |-> a.key, value |-> a.value,
                 mask |-> a.mask, scores |-> <<>>, p_attn |-> <<>>, den |-> <<>>,
                 out |-> <<>>]

AttnScores ==
    /\ at.pc = "scores"
    /\ at' = [at EXCEPT !.scores = Scores(at.query, at.key), !.pc = "fill"]
    /\ UNCHANGED <<fwdvars, dc>>

\* if mask is not None: (a mask is always passed by this model)
AttnMaskedFill ==
    /\ at.pc = "fill"
    /\ at' = [at EXCEPT !.scores = MaskedFill(at.scores, at.mask), !.pc = "softmax"]
    /\ UNCHANGED <<fwdvars, dc>>

AttnSoftmax ==
    /\ at.pc = "softmax"
    /\ at' = [at EXCEPT !.p_attn = SoftmaxNum(at.scores),
                        !.den = SoftmaxDen(SoftmaxNum(at.scores)),
                        !.pc = "matmul"]
    /\ UNCHANGED <<fwdvars, dc>>

AttnMatmul ==
    /\ at.pc = "matmul"
    /\ at' = [at EXCEPT !.out = Matmul(at.p_attn, at.value), !.pc = "returned"]
    /\ UNCHANGED <<fwdvars, dc>>

NextAttn == AttnScores \/ AttnMaskedFill \/ AttnSoftmax \/ AttnMatmul

SpecAttn == InitAttn /\ [][NextAttn]_vars

Unmasked(i) == {j \in DOMAIN at.mask[i] : at.mask[i][j] = 1}

\* C6 (as stated): after attention with a mask, for every query position,
\* a fully masked one included, every masked key position has weight zero
\* and the masked values do not contribute to the output.
C6_MaskedWeightZero ==
    at.pc = "returned" =>
        \A i \in DOMAIN at.p_attn :
            /\ \A j \in DOMAIN at.p_attn[i] : at.mask[i][j] = 0 => at.p_attn[i][j] = 0
            /\ at.out[i] = SumSeq([j \in DOMAIN at.value |->
                   IF at.mask[i][j] = 0 THEN 0 ELSE at.p_attn[i][j] * at.value[j]])

\* C6 (amended): for every query position that has at least one unmasked key,
\* every masked key position has weight zero, the weights of the unmasked keys
\* sum to one and the masked values do not contribute to the output; a query
\* whose row masks every key gets the uniform distribution over all keys.
C6_MaskedWeightZeroUnlessAllMasked ==
    at.pc = "returned" =>
        \A i \in DOMAIN at.p_attn :
            IF Unmasked(i) # {}
            THEN /\ \A j \in DOMAIN at.p_attn[i] :
                        at.mask[i][j] = 0 => at.p_attn[i][j] = 0
                 /\ \A j \in Unmasked(i) : at.p_attn[i][j] > 0
                 /\ at.out[i] = SumSeq([j \in DOMAIN at.value |->
                        IF at.mask[i][j] = 0 THEN 0 ELSE at.p_attn[i][j] * at.value[j]])
            ELSE \A j \in DOMAIN at.p_attn[i] :
                     at.p_attn[i][j] * Len(at.p_attn[i]) = at.den[i]

\* C6 witness: attention has returned for a query with a masked and an
\* unmasked key, the masked key having had the larger raw score
C6_Witness ==
    /\ at.pc = "returned"
    /\ \E i \in DOMAIN at.mask : \E j, l \in DOMAIN at.mask[i] :
           /\ at.mask[i][j] = 0 /\ at.mask[i][l] = 1
           /\ at.query[i] * at.key[j] > at.query[i] * at.key[l]
           /\ at.value[j] # at.value[l]


(***************************************************************************)
(* SpecDec: Decoder.forward with dropout disabled, run on two target       *)
(* inputs at once against the same memory.  A tensor is a sequence with    *)
(* one value per time position; a value is an entry of a table of terms    *)
(* (dc.tbl) in which equal terms share one entry, so two positions hold    *)
(* the same number exactly when they were computed the same way from the   *)
(* same inputs.                                                            *)
(***************************************************************************)
MaxTgt == 3      \* target length: 1..MaxTgt

MemLen == 2      \* memory (source) length

Tokens == {1, 2}

\* A term: an operation of a module on earlier terms.  An attention term keeps
\* the keys whose score survives masked_fill and the values whose weight is
\* not zero, by position (0 elsewhere).
DNode(op, m, args, keys, vals) ==
    [op |-> op, mod |-> m, args |-> args, keys |-> keys, vals |-> vals]

Known(tbl, n) == \E i \in 1..Len(tbl) : tbl[i] = n

Intern(tbl, n) == IF Known(tbl, n) THEN tbl ELSE Append(tbl, n)

IdOf(tbl, n) == CHOOSE i \in 1..Len(tbl) : tbl[i] = n

RECURSIVE InternAll(_, _)
InternAll(tbl, nodes) ==
    IF nodes = <<>> THEN tbl
    ELSE One({ InternAll(t, Tail(nodes)) : t \in {Intern(tbl, Head(nodes))} })

\* One operation applied at every position: the table and the new tensor
Each(tbl, nodes) ==
    One({ [tbl |-> t, x |-> [i \in DOMAIN nodes |-> IdOf(t, nodes[i])]]
          : t \in {InternAll(tbl, nodes)} })

\* The key positions whose softmax weight is not zero for a query whose mask
\* row is row, the raw scores being of ordinary size (0 stands for them):
\* masked_fill, then softmax, as attention() computes them
Support(row) ==
    {j \in DOMAIN row : SoftmaxNum(MaskedFill(<<[l \in DOMAIN row |-> 0]>>, <<row>>))[1][j] > 0}

\* MultiHeadedAttention.forward at every query position i: the projected
\* query, the keys whose scores are not overwritten by masked_fill, the
\* values matmul(p_attn, value) gives a weight other than zero
MultiHeadedAttention_pos(tbl, m, query, key, value, mask) ==
    Each(tbl, [i \in DOMAIN query |->
        DNode("MultiHeadedAttention", m, <<query[i]>>,
              [j \in DOMAIN key |-> IF mask[i][j] = 1 THEN key[j] ELSE 0],
              [j \in DOMAIN value |-> IF j \in Support(mask[i]) THEN value[j] ELSE 0])])

\* LayerNorm.forward: mean and std over the last axis, position by position
LayerNorm_pos(tbl, m, x) ==
    Each(tbl, [i \in DOMAIN x |-> DNode("LayerNorm", m, <<x[i]>>, <<>>, <<>>)])

\* PositionwiseFeedForward.forward, position by position
PositionwiseFeedForward_pos(tbl, m, x) ==
    Each(tbl, [i \in DOMAIN x |-> DNode("PositionwiseFeedForward", m, <<x[i]>>, <<>>, <<>>)])

\* SublayerConnection.forward with dropout disabled: x + y, position by position
SublayerConnection_pos(tbl, m, x, y) ==
    Each(tbl, [i \in DOMAIN x |-> DNode("add", m, <<x[i], y[i]>>, <<>>, <<>>)])

\* A mask of shape (1, S) broadcast over the T query positions
Broadcast(row, T) == [i \in 1..T |-> row]

\* DecoderLayer_selfAttn ignoring tgt_mask
DecoderLayer_selfAttn_unmasked(tbl, k, x, tgt_mask) ==
    One({ One({ SublayerConnection_pos(a.tbl, Mod("decoder", k, "sublayer0"), x, a.x)
        : a \in {MultiHeadedAttention_pos(n.tbl, Mod("decoder", k, "self_attn"), n.x, n.x, n.x,
                     [i \in DOMAIN x |-> [j \in DOMAIN x |-> 1]])} })
        : n \in {LayerNorm_pos(tbl, Mod("decoder", k, "sublayer0"), x)} })

\* DecoderLayer.forward: x = self.sublayer[0](x, lambda x: self.self_attn(x, x, x, tgt_mask))
DecoderLayer_selfAttn(tbl, k, x, tgt_mask) ==
    One({ One({ SublayerConnection_pos(a.tbl, Mod("decoder", k, "sublayer0"), x, a.x)
        : a \in {MultiHeadedAttention_pos(n.tbl, Mod("decoder", k, "self_attn"), n.x, n.x, n.x,
                                          tgt_mask)} })
        : n \in {LayerNorm_pos(tbl, Mod("decoder", k, "sublayer0"), x)} })

\* DecoderLayer.forward: x = self.sublayer[1](x, lambda x: self.src_attn(x, q_memory, q_memory, q_mask))
DecoderLayer_srcAttn(tbl, k, x, q_memory, q_mask) ==
    One({ One({ SublayerConnection_pos(a.tbl, Mod("decoder", k, "sublayer1"), x, a.x)
        : a \in {MultiHeadedAttention_pos(n.tbl, Mod("decoder", k, "src_attn"), n.x,
                                          q_memory, q_memory, Broadcast(q_mask, Len(x)))} })
        : n \in {LayerNorm_pos(tbl, Mod("decoder", k, "sublayer1"), x)} })

\* DecoderLayer.forward: return self.sublayer[2](x, self.feed_forward)
DecoderLayer_feedForward(tbl, k, x) ==
    One({ One({ SublayerConnection_pos(f.tbl, Mod("decoder", k, "sublayer2"), x, f.x)
        : f \in {PositionwiseFeedForward_pos(n.tbl, Mod("decoder", k, "feed_forward"), n.x)} })
        : n \in {LayerNorm_pos(tbl, Mod("decoder", k, "sublayer2"), x)} })

\* subsequent_mask: position i sees the positions j <= i
Causal(T) == [i \in 1..T |-> [j \in 1..T |-> IF j <= i THEN 1 ELSE 0]]

\* The causal mask combined with a padding mask keeping the first v keys
CausalPad(T, v) == [i \in 1..T |-> [j \in 1..T |-> IF j <= i /\ j <= v THEN 1 ELSE 0]]

\* No masking at all
Full(T) == [i \in 1..T |-> [j \in 1..T |-> 1]]

TgtMasks(T) == {Causal(T), Full(T)} \cup {CausalPad(T, v) : v \in 0..T - 1}

MemMasks == {[j \in 1..MemLen |-> 1], [j \in 1..MemLen |-> IF j = 1 THEN 1 ELSE 0],
             [j \in 1..MemLen |-> 0]}

\* The tensors handed to Decoder.forward: the memory and the two embedded
\* targets, the vector at position i being fixed by the token there and by i
MemoryNodes == [j \in 1..MemLen |-> DNode("memory", NoMod, <<j>>, <<>>, <<>>)]

TargetNodes(tgt) == [i \in DOMAIN tgt |-> DNode("x", NoMod, <<tgt[i], i>>, <<>>, <<>>)]

InitDec ==
    /\ FwdIdle
    /\ at = AttnIdle
    /\ \E N \in 1..MaxN, T \in 1..MaxTgt :
       \E tgt1 \in [1..T -> Tokens], tgt2 \in [1..T -> Tokens], tm \in TgtMasks(T), qm \in MemMasks :
       \E m \in {Each(<<>>, MemoryNodes)} :
       \E t1 \in {Each(m.tbl, TargetNodes(tgt1))} :
       \E t2 \in {Each(t1.tbl, TargetNodes(tgt2))} :
           dc = [pc |-> "self_attn", N |-> N, tgt |-> <<tgt1, tgt2>>, tgt_mask |-> tm,
                 q_mask |-> qm, q_memory |-> m.x, tbl |-> t2.tbl, x |-> <<t1.x, t2.x>>,
                 li |-> 0]

\* First sublayer of layer li + 1, on both targets
DecSelfAttn ==
    /\ dc.pc = "self_attn"
    /\ \E r1 \in {DecoderLayer_selfAttn(dc.tbl, dc.li + 1, dc.x[1], dc.tgt_mask)} :
       \E r2 \in {DecoderLayer_selfAttn(r1.tbl, dc.li + 1, dc.x[2], dc.tgt_mask)} :
           dc' = [dc EXCEPT !.tbl = r2.tbl, !.x = <<r1.x, r2.x>>, !.pc = "src_attn"]
    /\ UNCHANGED <<fwdvars, at>>

\* Second sublayer, on both targets
DecSrcAttn ==
    /\ dc.pc = "src_attn"
    /\ \E r1 \in {DecoderLayer_srcAttn(dc.tbl, dc.li + 1, dc.x[1], dc.q_memory, dc.q_mask)} :
       \E r2 \in {DecoderLayer_srcAttn(r1.tbl, dc.li + 1, dc.x[2], dc.q_memory, dc.q_mask)} :
           dc' = [dc EXCEPT !.tbl = r2.tbl, !.x = <<r1.x, r2.x>>, !.pc = "feed_forward"]
    /\ UNCHANGED <<fwdvars, at>>

\* Third sublayer, on both targets; Decoder.forward then takes the next layer
DecFeedForward ==
    /\ dc.pc = "feed_forward"
    /\ \E r1 \in {DecoderLayer_feedForward(dc.tbl, dc.li + 1, dc.x[1])} :
       \E r2 \in {DecoderLayer_feedForward(r1.tbl, dc.li + 1, dc.x[2])} :
           dc' = [dc EXCEPT !.tbl = r2.tbl, !.x = <<r1.x, r2.x>>, !.li = @ + 1,
                            !.pc = IF dc.li + 1 = dc.N THEN "norm" ELSE "self_attn"]
    /\ UNCHANGED <<fwdvars, at>>

\* Decoder.forward: return self.norm(x)
DecNorm ==
    /\ dc.pc = "norm"
    /\ \E r1 \in {LayerNorm_pos(dc.tbl, Mod("decoder", 0, "norm"), dc.x[1])} :
       \E r2 \in {LayerNorm_pos(r1.tbl, Mod("decoder", 0, "norm"), dc.x[2])} :
           dc' = [dc EXCEPT !.tbl = r2.tbl, !.x = <<r1.x, r2.x>>, !.pc = "returned"]
    /\ UNCHANGED <<fwdvars, at>>

NextDec == DecSelfAttn \/ DecSrcAttn \/ DecFeedForward \/ DecNorm

SpecDec == InitDec /\ [][NextDec]_vars

\* The two targets agree at every position up to i
SamePrefix(i) == \A j \in 1..i : dc.tgt[1][j] = dc.tgt[2][j]

\* The target mask lets position i see only positions j <= i, itself included
CausalMask ==
    \A i \in DOMAIN dc.tgt_mask :
        /\ dc.tgt_mask[i][i] = 1
        /\ \A j \in DOMAIN dc.tgt_mask[i] : dc.tgt_mask[i][j] = 1 => j <= i

\* C5: with a causal target mask and dropout disabled, after every sublayer
\* of every decoder layer and after the final norm, the value at position i
\* is the same for two targets that agree up to position i, given the same
\* memory and memory mask.
C5_CausalNoninterference ==
    CausalMask =>
        \A i \in DOMAIN dc.x[1] : SamePrefix(i) => dc.x[1][i] = dc.x[2][i]

\* C5 witness: the decoder has returned after MaxN layers under the causal
\* mask for two targets that agree at position 1 and differ later; the outputs
\* agree at position 1 and differ at the last position
C5_Witness ==
    /\ dc.pc = "returned"
    /\ dc.N = MaxN
    /\ dc.tgt_mask = Causal(Len(dc.tgt[1]))
    /\ Len(dc.tgt[1]) >= 2
    /\ SamePrefix(1) /\ ~SamePrefix(2)
    /\ dc.x[1][1] = dc.x[2][1]
    /\ dc.x[1][Len(dc.tgt[1])] # dc.x[2][Len(dc.tgt[1])]

============================================================================
